---- MODULE Spec2Model ----
(***************************************************************************)
(* A model of beyond_compare_script_interface: the BeyondCompareScript     *)
(* runner (beyond_compare_script.py) and run_command (utilities.py).       *)
(*                                                                         *)
(* One runner instance, constructed successfully, is driven by asyncio     *)
(* tasks.  The synchronous methods are one action each; the coroutines     *)
(* write_new_script and run_script are one action per stretch of code      *)
(* between two awaits.  The filesystem under the data directory, the wall  *)
(* clock, the logging output and the console are part of the state.        *)
(***************************************************************************)
EXTENDS Integers, Sequences, FiniteSets, TLC

(***************************************************************************)
(* Bounds                                                                  *)
(***************************************************************************)
\* The wall clock runs over the seconds 0..MaxClock of one day.
MaxClock == 1

(***************************************************************************)
(* Values                                                                  *)
(***************************************************************************)
\* Python's None, for the Optional[Path] and Optional[List] fields.  A
\* pathlib.Path is modelled by its parts, a list by a sequence, so None is
\* the one sequence that is neither.
None == <<>>

\* The asyncio tasks that call into the runner.
Tasks == {"t1", "t2"}

\* The name write_new_script gives the script file.
SCRIPT_NAME == "beyond_compare_script.txt"

\* The constructor's data_directory, and the executable_path of the example.
EXECUTABLE_PATH == <<"opt", "bcompare", "BCompare">>
DATA_DIRECTORY == <<"data", "beyond_compare_mirror_script">>

(***************************************************************************)
(* pathlib: a path is the sequence of its parts                            *)
(***************************************************************************)
\* Path.__truediv__: path / name.
PathJoin(path, name) == Append(path, name)

RECURSIVE JoinParts(_)
JoinParts(parts) ==
    IF parts = <<>> THEN ""
    ELSE "/" \o Head(parts) \o JoinParts(Tail(parts))

\* str(path), which is also what an f-string or str.format makes of a path.
PathStr(path) == JoinParts(path)

(***************************************************************************)
(* datetime.now().strftime("%Y%m%d-%H%M%S")                                *)
(***************************************************************************)
Pad2(n) == IF n < 10 THEN "0" \o ToString(n) ELSE ToString(n)

\* The clock counts seconds since midnight of one fixed day.
Strftime(c) ==
    "20240101-" \o Pad2(c \div 3600) \o Pad2((c \div 60) % 60) \o Pad2(c % 60)

(***************************************************************************)
(* str.format with keyword arguments                                       *)
(*                                                                         *)
(* A template is the sequence of the pieces str.format parses it into:     *)
(* literal text and replacement fields {name}.  A keyword value is a str   *)
(* or a Path.                                                              *)
(***************************************************************************)
Lit(s) == [kind |-> "lit", text |-> s]
Field(n) == [kind |-> "field", text |-> n]

StrVal(s) == [kind |-> "str", text |-> s, parts |-> <<>>]
PathVal(p) == [kind |-> "path", text |-> "", parts |-> p]

\* A faulty variant of the conversion below: a Path is not converted.
Str_NoPathConversion(v) == v.text

\* format(value, ""): str(value)
Str(v) == IF v.kind = "path" THEN PathStr(v.parts) ELSE v.text

RECURSIVE FormatFrom(_, _, _)
FormatFrom(tpl, kwargs, i) ==
    IF i > Len(tpl) THEN [ok |-> TRUE, text |-> ""]
    ELSE IF tpl[i].kind = "field" /\ tpl[i].text \notin DOMAIN kwargs
         THEN [ok |-> FALSE, text |-> ""]          \* KeyError
         ELSE LET rest == FormatFrom(tpl, kwargs, i + 1)
                  piece == IF tpl[i].kind = "field"
                           THEN Str(kwargs[tpl[i].text])
                           ELSE tpl[i].text
              IN  IF rest.ok THEN [ok |-> TRUE, text |-> piece \o rest.text]
                  ELSE rest

\* script_data.format with kwargs: the text, or a KeyError (ok = FALSE) when a
\* replacement field names a key that kwargs lacks.
Format(tpl, kwargs) == FormatFrom(tpl, kwargs, 1)

(***************************************************************************)
(* bytes.decode(): UTF-8, errors="strict"                                  *)
(*                                                                         *)
(* A byte string is a sequence of 0..255, a str the sequence of its code   *)
(* points.                                                                 *)
(***************************************************************************)
IsCont(b) == b >= 128 /\ b <= 191

RECURSIVE DecodeFrom(_, _)
DecodeFrom(bytes, i) ==
    IF i > Len(bytes) THEN [ok |-> TRUE, text |-> <<>>]
    ELSE
      LET b0 == bytes[i]
          n  == IF b0 <= 127 THEN 1
                ELSE IF b0 >= 194 /\ b0 <= 223 THEN 2
                ELSE IF b0 >= 224 /\ b0 <= 239 THEN 3
                ELSE IF b0 >= 240 /\ b0 <= 244 THEN 4
                ELSE 0                             \* no lead byte
          complete == /\ n > 0
                      /\ i + n - 1 <= Len(bytes)
                      /\ \A k \in 1..(n - 1) : IsCont(bytes[i + k])
          cp == IF n = 1 THEN b0
                ELSE IF n = 2 THEN (b0 - 192) * 64 + (bytes[i + 1] - 128)
                ELSE IF n = 3 THEN (b0 - 224) * 4096 + (bytes[i + 1] - 128) * 64
                                   + (bytes[i + 2] - 128)
                ELSE (b0 - 240) * 262144 + (bytes[i + 1] - 128) * 4096
                     + (bytes[i + 2] - 128) * 64 + (bytes[i + 3] - 128)
          \* overlong forms, surrogates and code points past U+10FFFF
          valid == /\ complete
                   /\ (n = 3 => cp >= 2048 /\ ~(cp >= 55296 /\ cp <= 57343))
                   /\ (n = 4 => cp >= 65536 /\ cp <= 1114111)
      IN  IF ~valid THEN [ok |-> FALSE, text |-> <<>>]   \* UnicodeDecodeError
          ELSE LET rest == DecodeFrom(bytes, i + n)
               IN  IF rest.ok THEN [ok |-> TRUE, text |-> <<cp>> \o rest.text]
                   ELSE rest

Decode(bytes) == DecodeFrom(bytes, 1)

(***************************************************************************)
(* Inputs                                                                  *)
(***************************************************************************)
\* The script_data a runner may be constructed with: one template without
\* and one with replacement fields.
Templates ==
    { <<Lit("log verbose")>>,
      <<Lit("load "), Field("source_directory"), Lit(" "),
        Field("target_directory")>> }

KwargValue(k) ==
    IF k = "source_directory" THEN PathVal(<<"data", "source">>)
    ELSE IF k = "target_directory" THEN StrVal("D:/target")
    ELSE StrVal("report.html")

KwargsOver(keys) == [k \in keys |-> KwargValue(k)]

\* The keyword arguments of a write_new_script call: none, every field of
\* the template, those and one more, and one field short.
KwargsChoices ==
    { KwargsOver({}),
      KwargsOver({"source_directory", "target_directory"}),
      KwargsOver({"source_directory", "target_directory", "report_file_path"}),
      KwargsOver({"source_directory"}) }

\* The files outside the data directory that an executable_path may name,
\* each with the st_mode stat() gives: 0o100755, 0o100010 (executable by the
\* group only) and 0o100644.
ExecutableModes ==
    (EXECUTABLE_PATH :> 33261)
    @@ (<<"opt", "bcompare", "bcomp">> :> 32776)
    @@ (<<"opt", "bcompare", "readme.txt">> :> 33188)

\* The executable_path a runner may be constructed with: None, a path that
\* names no file, and the files above.
ExecutableChoices ==
    {None, <<"Fake", "Path", "To", "BeyondCompare.exe">>}
    \cup DOMAIN ExecutableModes

\* What a child process may leave behind: its return code and the bytes of
\* a stream (nothing, "e" and the two-byte form of U+00E9, and a byte that
\* is no UTF-8).
ReturnCodes == {0, 1}
Streams == { <<>>, <<101, 195, 169>>, <<255>> }

(***************************************************************************)
(* State                                                                   *)
(***************************************************************************)
VARIABLES
    constructed,            \* __init__ has returned: the runner exists
    executable_path,        \* self.executable_path
    clock,                  \* the wall clock, in seconds
    dirs,                   \* filesystem: the directories that exist
    files,                  \* filesystem: path of each regular file -> text
    script_data,            \* self.script_data
    current_run_directory,  \* self.current_run_directory
    script_path,            \* self.script_path
    subprocess_command,     \* self.subprocess_command
    pc,                     \* per task: where its coroutine is suspended
    frame,                  \* per task: the locals of its coroutine
    launched,               \* the children launched since the latest call began
    log,                    \* the records logged since the latest call began
    console,                \* what print wrote since the latest call began
    last,                   \* how the most recently finished call ended
    hist                    \* history: wrote, the script_path of the latest
                            \* write_new_script that returned; removed, a
                            \* remove_script has succeeded since it; prepared,
                            \* prepare_current_run_directory was called since it

vars == <<constructed, executable_path, clock, dirs, files, script_data,
          current_run_directory, script_path, subprocess_command, pc, frame,
          launched, log, console, last, hist>>

\* What only __init__ assigns.
construction == <<constructed, executable_path, script_data>>

NoFrame ==
    [kwargs |-> KwargsOver({}), path |-> None, text |-> "",
     command |-> None, print_output |-> FALSE, overtaken |-> FALSE]

\* How a call ended: the method, the exception it raised or "none", and the
\* value it returned; repeat, that it repeats the call before it.
Outcome(op, exc, ret) ==
    [op |-> op, exc |-> exc, ret |-> ret, repeat |-> FALSE]

\* The call that ended before this one was the same method, and returned.
Repeats(op) == last.op = op /\ last.exc = "none"

LogRecord(level, func, path, command, text) ==
    [level |-> level, func |-> func, path |-> path, command |-> command,
     text |-> text]

\* Path.exists()
Exists(path) == path \in dirs \/ path \in DOMAIN files

\* open(path, "w") and write: the file at path holds text afterwards.
PutFile(fs, path, text) ==
    [p \in DOMAIN fs \cup {path} |-> IF p = path THEN text ELSE fs[p]]

\* Path.unlink()
Unlink(fs, path) == [p \in DOMAIN fs \ {path} |-> fs[p]]

\* Path.mkdir(parents=True, exist_ok=True)
Mkdir(ds, path) == ds \cup {SubSeq(path, 1, n) : n \in 1..Len(path)}

RECURSIVE BitAnd(_, _)
\* a & b, on naturals
BitAnd(a, b) ==
    IF a = 0 \/ b = 0 THEN 0
    ELSE (a % 2) * (b % 2) + 2 * BitAnd(a \div 2, b \div 2)

\* Nothing is constructed yet and the data directory does not exist.
Init ==
    /\ constructed = FALSE
    /\ executable_path = None
    /\ clock = 0
    /\ dirs = {}
    /\ files = [p \in {} |-> ""]
    /\ script_data = None
    /\ current_run_directory = None
    /\ script_path = None
    /\ subprocess_command = None
    /\ pc = [t \in Tasks |-> "idle"]
    /\ frame = [t \in Tasks |-> NoFrame]
    /\ launched = <<>>
    /\ log = <<>>
    /\ console = <<>>
    /\ last = Outcome("none", "none", None)
    /\ hist = [wrote |-> None, removed |-> FALSE, prepared |-> FALSE]

\* The caller sequences the operations of one instance: a call begins only
\* when no coroutine of the instance is suspended.
MayCall(t) == \A u \in Tasks : pc[u] = "idle"

\* The runner exists and task t is not inside one of its coroutines.
Idle(t) == constructed /\ pc[t] = "idle"

\* A call by task t begins: the observation windows start afresh.
BeginCall(t) ==
    /\ launched' = <<>>
    /\ console' = <<>>

\* The wall clock reaches the next second.
Tick ==
    /\ clock < MaxClock
    /\ clock' = clock + 1
    /\ UNCHANGED <<dirs, files, construction, current_run_directory, script_path,
                   subprocess_command, pc, frame, launched, log, console, last,
                   hist>>

(***************************************************************************)
(* __init__                                                                *)
(***************************************************************************)
\* EnvironmentError is OSError, and FileNotFoundError is a subclass of it:
\* an except clause for EnvironmentError catches both.
IsEnvironmentError(exc) == exc \in {"EnvironmentError", "FileNotFoundError"}

\* A faulty variant of the test below: only the owner's bit is looked at.
HasExecutableBit_OwnerOnly(mode) == BitAnd(mode, 64) # 0

\* st_mode & 0o111
HasExecutableBit(mode) == BitAnd(mode, 73) # 0

\* The exception the check on line 52 ends in, or "none": stat() raises
\* FileNotFoundError for a path that names no file, before the test of the
\* mode is reached.
ExecutableCheck(executable) ==
    IF executable = None THEN "EnvironmentError"
    ELSE IF executable \notin DOMAIN ExecutableModes THEN "FileNotFoundError"
    ELSE IF ~HasExecutableBit(ExecutableModes[executable])
         THEN "EnvironmentError"
    ELSE "none"

\* A faulty variant of the definition below: the data directory is made
\* after the executable is checked.
DirsAfterInit_CheckFirst(ds, exc) ==
    IF exc = "none" THEN Mkdir(ds, DATA_DIRECTORY) ELSE ds

\* self.data_directory.mkdir(parents=True, exist_ok=True), which __init__
\* reaches whatever exception exc the later check of the executable ends in.
DirsAfterInit(ds, exc) == Mkdir(ds, DATA_DIRECTORY)

\* BeyondCompareScript(executable, template, DATA_DIRECTORY).  A constructor
\* that raises leaves no runner; the caller may construct again.
Construct(executable, template) ==
    /\ ~constructed
    /\ LET exc == ExecutableCheck(executable)
       IN  /\ dirs' = DirsAfterInit(dirs, exc)
           /\ constructed' = (exc = "none")
           /\ executable_path' = IF exc = "none" THEN executable ELSE None
           /\ script_data' = IF exc = "none" THEN template ELSE None
           /\ last' = Outcome("__init__", exc, None)
    /\ subprocess_command' = None
    /\ current_run_directory' = None
    /\ script_path' = None
    /\ UNCHANGED <<clock, files, pc, frame, launched, log, console, hist>>

(***************************************************************************)
(* prepare_current_run_directory                                           *)
(***************************************************************************)
\* A faulty variant of the path below: the name has the resolution of a
\* minute.
RunDirectory_MinuteResolution(c) ==
    PathJoin(DATA_DIRECTORY, Strftime(60 * (c \div 60)))

\* data_directory / currentDate.strftime(...)
RunDirectory(c) == PathJoin(DATA_DIRECTORY, Strftime(c))

\* Where a write_new_script coroutine is suspended: at aiofiles.open, at
\* the write, at the close that leaves the with statement.
WritePositions == {"w_open", "w_write", "w_close"}

\* The frame of a write_new_script that is suspended when the directory is
\* prepared records that a preparation has overtaken it.
PrepareRunDirectory(t) ==
    /\ Idle(t)
    /\ BeginCall(t)
    /\ current_run_directory' = RunDirectory(clock)
    /\ log' = <<LogRecord("INFO", "prepare_current_run_directory",
                          current_run_directory', None, <<>>)>>
    /\ dirs' = Mkdir(dirs, current_run_directory')
    /\ last' = Outcome("prepare_current_run_directory", "none",
                       current_run_directory')
    /\ hist' = [hist EXCEPT !.prepared = TRUE]
    /\ frame' = [u \in Tasks |->
                    IF pc[u] \in WritePositions
                    THEN [frame[u] EXCEPT !.overtaken = TRUE]
                    ELSE frame[u]]
    /\ UNCHANGED <<clock, files, construction, script_path, subprocess_command,
                   pc>>

(***************************************************************************)
(* write_new_script                                                        *)
(***************************************************************************)
\* A faulty variant of the guard below: the test inverted.
RunDirectoryNotSet_Inverted == current_run_directory # None

\* not self.current_run_directory: a Path is always true, None never.
RunDirectoryNotSet == current_run_directory = None

\* A faulty variant of the path below: the script goes into the data
\* directory, not the run directory.
ScriptPathIn_DataDirectory(dir) == PathJoin(DATA_DIRECTORY, SCRIPT_NAME)

\* A faulty variant of the path below: the script goes into a directory of
\* its own inside the run directory.
ScriptPathIn_Nested(dir) == PathJoin(PathJoin(dir, "script"), SCRIPT_NAME)

\* self.current_run_directory / "beyond_compare_script.txt"
ScriptPathIn(dir) == PathJoin(dir, SCRIPT_NAME)

\* A faulty variant of the reset below: current_run_directory is kept.
RunDirectoryAfterWrite_NotReset == current_run_directory

\* The value the last statement of write_new_script gives
\* self.current_run_directory.
RunDirectoryAfterWrite == None

\* From the call to the first await: the guard, the assignment of
\* script_path, and aiofiles.open handed to its thread.
WriteBegin(t, kwargs) ==
    /\ Idle(t)
    /\ BeginCall(t)
    /\ IF RunDirectoryNotSet
       THEN /\ last' = Outcome("write_new_script", "ValueError", None)
            /\ log' = <<>>
            /\ UNCHANGED <<script_path, pc, frame>>
       ELSE /\ script_path' = ScriptPathIn(current_run_directory)
            /\ log' = <<LogRecord("INFO", "write_new_script",
                                  current_run_directory, None, <<>>)>>
            /\ pc' = [pc EXCEPT ![t] = "w_open"]
            /\ frame' = [frame EXCEPT ![t] =
                            [NoFrame EXCEPT !.kwargs = kwargs,
                                            !.path = script_path']]
            /\ UNCHANGED last
    /\ UNCHANGED <<clock, dirs, files, construction, current_run_directory,
                   subprocess_command, hist>>

\* The file is open in mode "w": it exists and is empty (its directory
\* exists, as nothing removes a run directory).  The body of the with
\* statement then formats the template, which ends in the write being
\* awaited or in a KeyError, on which the file is closed.
WriteOpen(t) ==
    /\ pc[t] = "w_open"
    /\ files' = PutFile(files, frame[t].path, "")
    /\ LET fmt == Format(script_data, frame[t].kwargs)
       IN  IF fmt.ok
           THEN /\ pc' = [pc EXCEPT ![t] = "w_write"]
                /\ frame' = [frame EXCEPT ![t].text = fmt.text]
           ELSE /\ pc' = [pc EXCEPT ![t] = "w_abort"]
                /\ UNCHANGED frame
    /\ UNCHANGED <<clock, dirs, construction, current_run_directory, script_path,
                   subprocess_command, launched, log, console, last, hist>>

\* The awaited write: the text is in the file, if the file is still linked.
WriteData(t) ==
    /\ pc[t] = "w_write"
    /\ files' = IF frame[t].path \in DOMAIN files
                THEN PutFile(files, frame[t].path, frame[t].text)
                ELSE files
    /\ pc' = [pc EXCEPT ![t] = "w_close"]
    /\ UNCHANGED <<clock, dirs, construction, current_run_directory, script_path,
                   subprocess_command, frame, launched, log, console, last,
                   hist>>

\* The file is closed; current_run_directory is reset and the call returns.
WriteClose(t) ==
    /\ pc[t] = "w_close"
    /\ current_run_directory' = RunDirectoryAfterWrite
    /\ pc' = [pc EXCEPT ![t] = "idle"]
    /\ frame' = [frame EXCEPT ![t] = NoFrame]
    /\ last' = Outcome("write_new_script", "none", None)
    /\ hist' = [hist EXCEPT !.wrote = frame[t].path,
                            !.removed = FALSE,
                            !.prepared = FALSE]
    /\ UNCHANGED <<clock, dirs, files, construction, script_path,
                   subprocess_command, launched, log, console>>

\* The file is closed after the KeyError, which reaches the caller.
WriteAbort(t) ==
    /\ pc[t] = "w_abort"
    /\ pc' = [pc EXCEPT ![t] = "idle"]
    /\ frame' = [frame EXCEPT ![t] = NoFrame]
    /\ last' = Outcome("write_new_script", "KeyError", None)
    /\ UNCHANGED <<clock, dirs, files, construction, current_run_directory,
                   script_path, subprocess_command, launched, log, console,
                   hist>>

(***************************************************************************)
(* prepare_subprocess_command                                              *)
(***************************************************************************)
\* A faulty variant of the test below: the file's existence is not looked at.
ScriptNotFound_IgnoresExistence == script_path = None

\* A faulty variant of the test below: "and" where the code has "or".
ScriptNotFound_And == script_path = None /\ ~Exists(script_path)

\* self.script_path is None or not self.script_path.exists()
ScriptNotFound == script_path = None \/ ~Exists(script_path)

\* A faulty variant of the list below: the stored list is extended, not
\* rebuilt.
Command_Extends ==
    subprocess_command
    \o <<PathStr(executable_path), "@" \o PathStr(script_path), "/silent">>

\* The list built on lines 122-126.
Command ==
    <<PathStr(executable_path), "@" \o PathStr(script_path), "/silent">>

PrepareInvocation(t) ==
    /\ Idle(t)
    /\ BeginCall(t)
    /\ IF ScriptNotFound
       THEN /\ last' = Outcome("prepare_subprocess_command",
                               "FileNotFoundError", None)
            /\ log' = <<>>
            /\ UNCHANGED subprocess_command
       ELSE /\ subprocess_command' = Command
            /\ log' = <<LogRecord("INFO", "prepare_subprocess_command",
                                  script_path, None, <<>>)>>
            /\ last' = [Outcome("prepare_subprocess_command", "none",
                                subprocess_command')
                           EXCEPT !.repeat =
                               Repeats("prepare_subprocess_command")]
    /\ UNCHANGED <<clock, dirs, files, construction, current_run_directory,
                   script_path, pc, frame, hist>>

(***************************************************************************)
(* remove_script                                                           *)
(***************************************************************************)
\* self.script_path and self.script_path.exists()
CanRemove == script_path # None /\ Exists(script_path)

RemoveScript(t) ==
    /\ Idle(t)
    /\ BeginCall(t)
    /\ IF CanRemove
       THEN /\ files' = Unlink(files, script_path)
            /\ log' = <<LogRecord("INFO", "remove_script", script_path, None,
                                  <<>>)>>
            /\ last' = Outcome("remove_script", "none", None)
            /\ hist' = [hist EXCEPT !.removed = TRUE]
       ELSE /\ last' = Outcome("remove_script", "FileNotFoundError", None)
            /\ log' = <<>>
            /\ UNCHANGED <<files, hist>>
    /\ UNCHANGED <<clock, dirs, construction, current_run_directory, script_path,
                   subprocess_command, pc, frame>>

(***************************************************************************)
(* run_script and run_command                                              *)
(***************************************************************************)
\* From the call to the first await: prepare_subprocess_command, whose
\* FileNotFoundError run_script lets through, and run_command entered with
\* self.subprocess_command as its argument.
RunBegin(t, print_output) ==
    /\ Idle(t)
    /\ BeginCall(t)
    /\ IF ScriptNotFound
       THEN /\ last' = Outcome("run_script", "FileNotFoundError", None)
            /\ log' = <<>>
            /\ UNCHANGED <<subprocess_command, pc, frame>>
       ELSE /\ subprocess_command' = Command
            /\ log' = <<LogRecord("INFO", "prepare_subprocess_command",
                                  script_path, None, <<>>),
                        LogRecord("INFO", "run_script", script_path, None,
                                  <<>>)>>
            /\ pc' = [pc EXCEPT ![t] = "r_spawn"]
            /\ frame' = [frame EXCEPT ![t] =
                            [NoFrame EXCEPT !.path = script_path,
                                            !.command = subprocess_command',
                                            !.print_output = print_output]]
            /\ UNCHANGED last
    /\ UNCHANGED <<clock, dirs, files, construction, current_run_directory,
                   script_path, hist>>

\* A faulty variant of the argument below: the list is read from the
\* instance when the child is started.
SpawnArgv_SharedField(t) == subprocess_command

\* The command parameter of run_command: the list self.subprocess_command
\* named when run_script made the call.
SpawnArgv(t) == frame[t].command

\* A faulty variant of the launch below: the child is started twice.
AfterSpawn_Twice(children, command) ==
    Append(Append(children, command), command)

\* The children running once create_subprocess_exec has started command.
AfterSpawn(children, command) == Append(children, command)

\* asyncio.create_subprocess_exec(*command, ...): the child is running.
RunSpawn(t) ==
    /\ pc[t] = "r_spawn"
    /\ launched' = AfterSpawn(launched, SpawnArgv(t))
    /\ pc' = [pc EXCEPT ![t] = "r_wait"]
    /\ UNCHANGED <<clock, dirs, files, construction, current_run_directory,
                   script_path, subprocess_command, frame, log, console, last,
                   hist>>

\* What print(stdout.decode()); print(stderr.decode()) leaves on the
\* console, and whether a decode raised.
Printed(stdout, stderr) ==
    LET out == Decode(stdout)
        err == Decode(stderr)
    IN  IF ~out.ok THEN [ok |-> FALSE, lines |-> <<>>]
        ELSE IF ~err.ok THEN [ok |-> FALSE, lines |-> <<out.text>>]
        ELSE [ok |-> TRUE, lines |-> <<out.text, err.text>>]

\* process.communicate() returns: the child ended with returncode and the
\* two captured streams.  A non-zero return code raises the RuntimeError
\* that run_script logs and swallows; building its message decodes stderr.
RunExit(t, returncode, stdout, stderr) ==
    /\ pc[t] = "r_wait"
    /\ pc' = [pc EXCEPT ![t] = "idle"]
    /\ frame' = [frame EXCEPT ![t] = NoFrame]
    /\ IF returncode # 0
       THEN LET err == Decode(stderr)
            IN  /\ console' = console
                /\ IF err.ok
                   THEN /\ log' = Append(log,
                                    LogRecord("ERROR", "run_script",
                                              script_path, frame[t].command,
                                              err.text))
                        /\ last' = Outcome("run_script", "none", None)
                   ELSE /\ log' = log
                        /\ last' = Outcome("run_script",
                                           "UnicodeDecodeError", None)
       ELSE /\ log' = log
            /\ IF frame[t].print_output
               THEN LET p == Printed(stdout, stderr)
                    IN  /\ console' = console \o p.lines
                        /\ last' = Outcome("run_script",
                                           IF p.ok THEN "none"
                                           ELSE "UnicodeDecodeError", None)
               ELSE /\ console' = console
                    /\ last' = Outcome("run_script", "none", None)
    /\ UNCHANGED <<clock, dirs, files, construction, current_run_directory,
                   script_path, subprocess_command, launched, hist>>

(***************************************************************************)
(* The runner, its callers and its environment                             *)
(***************************************************************************)
Next ==
    \/ Tick
    \/ \E executable \in ExecutableChoices : \E template \in Templates :
         Construct(executable, template)
    \/ \E t \in Tasks : MayCall(t) /\ PrepareRunDirectory(t)
    \/ \E t \in Tasks : \E kwargs \in KwargsChoices :
         MayCall(t) /\ WriteBegin(t, kwargs)
    \/ \E t \in Tasks : WriteOpen(t)
    \/ \E t \in Tasks : WriteData(t)
    \/ \E t \in Tasks : WriteClose(t)
    \/ \E t \in Tasks : WriteAbort(t)
    \/ \E t \in Tasks : MayCall(t) /\ PrepareInvocation(t)
    \/ \E t \in Tasks : MayCall(t) /\ RemoveScript(t)
    \/ \E t \in Tasks : \E print_output \in BOOLEAN :
         MayCall(t) /\ RunBegin(t, print_output)
    \/ \E t \in Tasks : RunSpawn(t)
    \/ \E t \in Tasks : \E returncode \in ReturnCodes :
         \E stdout \in Streams : \E stderr \in Streams :
            RunExit(t, returncode, stdout, stderr)

\* The runner under a caller that awaits each call before it makes the next.
Spec == Init /\ [][Next]_vars

\* The inputs of the concurrent callers: the template with replacement
\* fields, keyword arguments that cover it, so that no write_new_script
\* ends in a KeyError, and a child that writes nothing.
ConcurrentTemplates == {template \in Templates : Len(template) > 1}
ConcurrentKwargs ==
    { KwargsOver({"source_directory", "target_directory"}) }
ConcurrentStreams == { <<>> }

\* As Next, but a task may call a method while the coroutine of another task
\* is suspended at an await, as under asyncio.gather.
NextConcurrent ==
    \/ Tick
    \/ \E template \in ConcurrentTemplates :
         Construct(EXECUTABLE_PATH, template)
    \/ \E t \in Tasks : PrepareRunDirectory(t)
    \/ \E t \in Tasks : \E kwargs \in ConcurrentKwargs : WriteBegin(t, kwargs)
    \/ \E t \in Tasks : WriteOpen(t)
    \/ \E t \in Tasks : WriteData(t)
    \/ \E t \in Tasks : WriteClose(t)
    \/ \E t \in Tasks : PrepareInvocation(t)
    \/ \E t \in Tasks : RemoveScript(t)
    \/ \E t \in Tasks : RunBegin(t, FALSE)
    \/ \E t \in Tasks : RunSpawn(t)
    \/ \E t \in Tasks : \E returncode \in ReturnCodes :
         \E stdout \in ConcurrentStreams : \E stderr \in ConcurrentStreams :
            RunExit(t, returncode, stdout, stderr)

\* The runner under callers that do not wait for one another.
SpecConcurrent == Init /\ [][NextConcurrent]_vars

(***************************************************************************)
(* Properties                                                              *)
(***************************************************************************)
\* The directory a path lies in.
PathParent(path) == SubSeq(path, 1, Len(path) - 1)

\* The ERROR records of a log.
ErrorRecords(records) == SelectSeq(records, LAMBDA r : r.level = "ERROR")

\* C1: whenever the child of a run_script call exits with a non-zero return
\* code, the call returns normally, exactly one ERROR record is logged by it
\* and that record carries the command and the text of the captured stderr,
\* and script_path, current_run_directory and the files are as before.
C1_FailedChildIsLoggedNotRaised ==
    [][\A t \in Tasks : \A returncode \in ReturnCodes \ {0} :
         \A stdout \in Streams : \A stderr \in Streams :
            RunExit(t, returncode, stdout, stderr) =>
              /\ last' = Outcome("run_script", "none", None)
              /\ Len(ErrorRecords(log')) = Len(ErrorRecords(log)) + 1
              /\ log'[Len(log')].level = "ERROR"
              /\ log'[Len(log')].command = launched[Len(launched)]
              /\ stderr = <<101, 195, 169>> =>
                    log'[Len(log')].text = <<101, 233>>
              /\ UNCHANGED <<script_path, current_run_directory, files>>]_vars

\* C2: a write_new_script call made while current_run_directory is None
\* raises ValueError at once, and leaves the files, the directories,
\* script_path and current_run_directory as they were.
C2_WriteWithoutRunDirectoryFails ==
    [][\A t \in Tasks : \A kwargs \in KwargsChoices :
         (WriteBegin(t, kwargs) /\ current_run_directory = None) =>
           /\ last' = Outcome("write_new_script", "ValueError", None)
           /\ pc'[t] = "idle"
           /\ UNCHANGED <<files, dirs, script_path, current_run_directory>>]_vars

\* C2, witness: a runner on which nothing was ever prepared or written has
\* refused a write.
C2_Witness ==
    /\ last = Outcome("write_new_script", "ValueError", None)
    /\ ~hist.prepared
    /\ hist.wrote = None
    /\ current_run_directory = None
    /\ script_path = None
    /\ DOMAIN files = {}

\* C3: a write_new_script call that returns leaves current_run_directory
\* None; it returns only if prepare_current_run_directory was called since
\* the previous call that returned; and a call made with no such prepare in
\* between raises ValueError.
C3_OneWritePerPrepare ==
    [][\A t \in Tasks :
         /\ WriteClose(t) => (current_run_directory' = None /\ hist.prepared)
         /\ \A kwargs \in KwargsChoices :
              (WriteBegin(t, kwargs) /\ ~hist.prepared) =>
                /\ last' = Outcome("write_new_script", "ValueError", None)
                /\ pc'[t] = "idle"]_vars

\* C3, witness: after a write that returned, and with no prepare since, a
\* second write has been refused.
C3_Witness ==
    /\ last = Outcome("write_new_script", "ValueError", None)
    /\ hist.wrote # None
    /\ ~hist.prepared
    /\ hist.wrote \in DOMAIN files

\* C4, as claimed: no run directory receives more than one write_new_script
\* that returns, so that no rendered script is written over.  (The clock
\* never runs backwards, so the writes into one directory follow each other,
\* and a second one goes where the latest went.)
C4_NoRunDirectoryWrittenTwice ==
    [][\A t \in Tasks : WriteClose(t) => frame[t].path # hist.wrote]_vars

\* C4, as amended: every write_new_script that returns has consumed a
\* prepare_current_run_directory of its own, made since the previous write
\* that returned, and has written into the directory that prepare returned;
\* so the directory of a rendered script is written again, and the script
\* opened over, only after a later prepare has returned the same directory.
C4_OneWritePerPrepareCall ==
    [][\A t \in Tasks :
         /\ WriteClose(t) =>
              /\ hist.prepared
              /\ PathParent(frame[t].path) = current_run_directory
              /\ ~hist.prepared'
         /\ (WriteOpen(t) /\ frame[t].path \in DOMAIN files) =>
              /\ hist.prepared
              /\ PathParent(frame[t].path) = current_run_directory
      ]_vars

\* C4, witness: within one clock second the run directory was prepared,
\* written, and prepared again; a second write into it is about to return,
\* the script rendered over the first.
C4_Witness ==
    \E t \in Tasks :
        /\ pc[t] = "w_close"
        /\ frame[t].path = hist.wrote
        /\ hist.prepared
        /\ current_run_directory = RunDirectory(clock)
        /\ files[frame[t].path] # ""

\* C5: a run_script call made when no write_new_script has returned, or
\* when remove_script has succeeded since the latest one that did, raises
\* FileNotFoundError and launches no child.
C5_RunOnlyAfterWrite ==
    [][\A t \in Tasks : \A print_output \in BOOLEAN :
         (RunBegin(t, print_output) /\ (hist.wrote = None \/ hist.removed)) =>
           /\ last' = Outcome("run_script", "FileNotFoundError", None)
           /\ pc'[t] = "idle"
           /\ launched' = <<>>]_vars

\* C6, as claimed: once prepare_current_run_directory has been called, a
\* run_script call made before the next write_new_script returns raises an
\* error and launches nothing, also when the script of an earlier write
\* that returned is still there.
C6_RunAfterPrepareFails ==
    [][\A t \in Tasks : \A print_output \in BOOLEAN :
         (/\ RunBegin(t, print_output)
          /\ hist.prepared
          /\ script_path = hist.wrote
          /\ ~hist.removed) =>
           /\ last'.op = "run_script"
           /\ last'.exc # "none"
           /\ pc'[t] = "idle"]_vars

\* C6, as amended: run_script does not look at current_run_directory.  Called
\* after a prepare and before the next write returns, it raises
\* FileNotFoundError exactly when script_path is None or names no file, and
\* otherwise runs the tool on script_path, whichever run directory that is in.
C6_RunAfterPrepareChecksScriptOnly ==
    [][\A t \in Tasks : \A print_output \in BOOLEAN :
         (RunBegin(t, print_output) /\ hist.prepared) =>
           IF script_path = None \/ script_path \notin DOMAIN files
           THEN /\ last' = Outcome("run_script", "FileNotFoundError", None)
                /\ pc'[t] = "idle"
                /\ launched' = <<>>
           ELSE /\ pc'[t] = "r_spawn"
                /\ frame'[t].command[2] = "@" \o PathStr(script_path)
                /\ UNCHANGED <<script_path, current_run_directory>>]_vars

\* C6, witness: with a newer run directory prepared and nothing written into
\* it, the tool runs on the script of the earlier run directory.
C6_Witness ==
    \E t \in Tasks :
        /\ pc[t] = "r_wait"
        /\ hist.prepared
        /\ current_run_directory # None
        /\ script_path = hist.wrote
        /\ PathParent(script_path) # current_run_directory
        /\ launched = <<Command>>

\* What the two templates read once "/data/source" and "D:/target" stand for
\* their fields.
RenderedText(tpl) ==
    IF tpl = <<Lit("log verbose")>> THEN "log verbose"
    ELSE "load /data/source D:/target"

\* C7: when a write_new_script call returns, script_path is the file named
\* beyond_compare_script.txt in the run directory that was pending when the
\* call began, the file exists, and it holds the template with each field
\* replaced by the str of its keyword argument, whatever further keyword
\* arguments were given.
C7_WrittenScriptIsRenderedTemplate ==
    [][\A t \in Tasks :
         /\ \A kwargs \in KwargsChoices :
              (WriteBegin(t, kwargs) /\ current_run_directory # None) =>
                /\ script_path' =
                      Append(current_run_directory, "beyond_compare_script.txt")
                /\ UNCHANGED current_run_directory
         /\ WriteClose(t) =>
              /\ script_path' =
                    Append(current_run_directory, "beyond_compare_script.txt")
              /\ script_path' \in DOMAIN files'
              /\ files'[script_path'] = RenderedText(script_data)
      ]_vars

\* C7, witness: a write of the template with fields, called with a keyword
\* argument more than the fields, is about to return.
C7_Witness ==
    \E t \in Tasks :
        /\ pc[t] = "w_close"
        /\ Len(script_data) > 1
        /\ "report_file_path" \in DOMAIN frame[t].kwargs
        /\ files[script_path] = "load /data/source D:/target"

\* C8: remove_script, called when script_path is set and its file exists,
\* deletes the file and leaves script_path as it is; called again with no
\* write_new_script returning in between, or with script_path never set, it
\* raises FileNotFoundError; and a call that raises changes nothing.
C8_RemoveDeletesOnce ==
    [][\A t \in Tasks :
         RemoveScript(t) =>
           /\ IF script_path # None /\ script_path \in DOMAIN files
              THEN /\ last' = Outcome("remove_script", "none", None)
                   /\ DOMAIN files' = DOMAIN files \ {script_path}
                   /\ \A p \in DOMAIN files' : files'[p] = files[p]
                   /\ script_path' = script_path
              ELSE /\ last' = Outcome("remove_script", "FileNotFoundError",
                                      None)
                   /\ UNCHANGED <<files, dirs, script_path,
                                  current_run_directory, subprocess_command>>
           /\ (hist.removed \/ script_path = None) =>
                 last' = Outcome("remove_script", "FileNotFoundError", None)
      ]_vars

\* C9: prepare_subprocess_command raises FileNotFoundError exactly when
\* script_path is None or names nothing on disk, and then leaves
\* subprocess_command as it was; in every other state it returns.
C9_InvocationNeedsScriptFile ==
    [][\A t \in Tasks :
         PrepareInvocation(t) =>
           IF script_path = None \/ script_path \notin (DOMAIN files \cup dirs)
           THEN /\ last' = Outcome("prepare_subprocess_command",
                                   "FileNotFoundError", None)
                /\ UNCHANGED subprocess_command
           ELSE /\ last'.op = "prepare_subprocess_command"
                /\ last'.exc = "none"]_vars

\* C9, witness: the script was written, its command prepared, the script
\* removed; prepare_subprocess_command has then raised, and the command
\* prepared before is still stored.
C9_Witness ==
    /\ last = Outcome("prepare_subprocess_command", "FileNotFoundError", None)
    /\ script_path # None
    /\ script_path = hist.wrote
    /\ hist.removed
    /\ script_path \notin DOMAIN files
    /\ subprocess_command = Command

\* C10: a prepare_subprocess_command call that returns, returns and stores
\* the list of the executable path, "@" and the script path, and "/silent",
\* the script path being script_path, which is the one the latest
\* write_new_script that returned has set.
C10_InvocationIsExecutableAtScriptSilent ==
    [][\A t \in Tasks :
         (PrepareInvocation(t) /\ last'.exc = "none") =>
           /\ last'.ret = <<PathStr(executable_path),
                            "@" \o PathStr(script_path), "/silent">>
           /\ subprocess_command' = last'.ret
           /\ script_path = hist.wrote]_vars

\* The permission bits that make a file executable: 0o001, 0o010, 0o100.
ExecutableBits == {1, 8, 64}

\* The executable names a file that exists with at least one executable bit.
IsExecutableFile(executable) ==
    /\ executable \in DOMAIN ExecutableModes
    /\ \E b \in ExecutableBits : BitAnd(ExecutableModes[executable], b) = b

\* C13: the constructor raises an EnvironmentError (the explicit one, or the
\* FileNotFoundError subclass that stat() raises for a missing file) and
\* leaves no runner whenever the executable path is None, names no file, or
\* names a file without any executable bit; it returns a runner exactly when
\* the file exists with at least one executable bit.
C13_ConstructChecksExecutable ==
    [][\A executable \in ExecutableChoices : \A template \in Templates :
         Construct(executable, template) =>
            /\ last'.op = "__init__"
            /\ constructed' <=> IsExecutableFile(executable)
            /\ constructed' <=> (last'.exc = "none")
            /\ ~constructed' <=> IsEnvironmentError(last'.exc)
            /\ constructed' =>
                  /\ executable_path' = executable
                  /\ script_data' = template]_vars

\* A constructor given a path that names no file has failed, with the
\* FileNotFoundError of stat(), and left no runner.
C13_Witness ==
    /\ ~constructed
    /\ executable_path = None
    /\ last = Outcome("__init__", "FileNotFoundError", None)

\* C20: the constructor makes the data directory, with its parents, before
\* it checks the executable: after every constructor call, the failed ones
\* included, the data directory exists.
C20_ConstructMakesDataDirectory ==
    [][\A executable \in ExecutableChoices : \A template \in Templates :
         Construct(executable, template) =>
            /\ DATA_DIRECTORY \in dirs'
            /\ PathParent(DATA_DIRECTORY) \in dirs'
            /\ dirs \subseteq dirs'
            /\ files' = files]_vars

\* A constructor call has failed on an executable that is not executable, and
\* the data directory exists all the same.
C20_Witness ==
    /\ ~constructed
    /\ last = Outcome("__init__", "EnvironmentError", None)
    /\ DATA_DIRECTORY \in dirs

\* The records of a log that prepare_subprocess_command wrote.
PrepareRecords(records) ==
    SelectSeq(records, LAMBDA r : r.func = "prepare_subprocess_command")

\* C11: a run_script call that finds no script file raises from its one
\* prepare_subprocess_command and launches no child; every other run_script
\* call has, when it ends, prepared the command once and launched one child
\* with it, whatever the child's return code.
C11_OneChildPerRun ==
    [][/\ \A t \in Tasks : \A print_output \in BOOLEAN :
            (MayCall(t) /\ RunBegin(t, print_output)) =>
               /\ launched' = <<>>
               /\ ScriptNotFound =>
                     /\ last' = Outcome("run_script", "FileNotFoundError", None)
                     /\ pc'[t] = "idle"
                     /\ PrepareRecords(log') = <<>>
               /\ ~ScriptNotFound =>
                     /\ pc'[t] = "r_spawn"
                     /\ Len(PrepareRecords(log')) = 1
       /\ \A t \in Tasks : \A returncode \in ReturnCodes :
            \A stdout \in Streams : \A stderr \in Streams :
               RunExit(t, returncode, stdout, stderr) =>
                  /\ launched = <<frame[t].command>>
                  /\ launched' = launched
                  /\ Len(PrepareRecords(log')) = 1
                  /\ last'.op = "run_script"
                  /\ pc'[t] = "idle"]_vars

\* A run_script call has ended after its child failed: the error is logged
\* and the one child is all it launched.
C11_Witness ==
    /\ last = Outcome("run_script", "none", None)
    /\ Len(ErrorRecords(log)) = 1
    /\ Len(launched) = 1
    /\ \A t \in Tasks : pc[t] = "idle"

\* The name "%Y%m%d-%H%M%S" gives each of the first seconds of the day.
SecondStamp ==
    [c \in 0..3 |->
        IF c = 0 THEN "20240101-000000"
        ELSE IF c = 1 THEN "20240101-000001"
        ELSE IF c = 2 THEN "20240101-000002"
        ELSE "20240101-000003"]

\* C12: every prepare_current_run_directory call returns normally; the path
\* it returns is the data directory's child named by the second of the
\* call, exists after the call and is stored as current_run_directory; a
\* call that finds the directory present (as the second call within one
\* second does) returns it all the same and changes nothing on disk.
C12_PrepareReturnsRunDirectory ==
    [][\A t \in Tasks :
         (MayCall(t) /\ PrepareRunDirectory(t)) =>
            /\ last'.op = "prepare_current_run_directory"
            /\ last'.exc = "none"
            /\ last'.ret = <<"data", "beyond_compare_mirror_script",
                             SecondStamp[clock]>>
            /\ PathParent(last'.ret) = DATA_DIRECTORY
            /\ last'.ret \in dirs'
            /\ current_run_directory' = last'.ret
            /\ dirs \subseteq dirs'
            /\ files' = files
            /\ last'.ret \in dirs => dirs' = dirs]_vars

\* A second prepare_current_run_directory within one second has returned the
\* directory the script was already written to.
C12_Witness ==
    /\ last.op = "prepare_current_run_directory"
    /\ last.exc = "none"
    /\ current_run_directory = last.ret
    /\ hist.wrote # None
    /\ PathParent(hist.wrote) = current_run_directory
    /\ hist.wrote \in DOMAIN files

\* C14: prepare_subprocess_command, whether it returns or raises, leaves
\* every file and directory, current_run_directory and script_path as they
\* were; and a call that follows a prepare_subprocess_command that returned,
\* with no other call in between, returns a list equal to the one before.
C14_PrepareInvocationReadOnly ==
    [][\A t \in Tasks :
         (MayCall(t) /\ PrepareInvocation(t)) =>
            /\ files' = files
            /\ dirs' = dirs
            /\ current_run_directory' = current_run_directory
            /\ script_path' = script_path
            /\ Repeats("prepare_subprocess_command") =>
                  /\ last'.exc = "none"
                  /\ last'.ret = last.ret
                  /\ subprocess_command' = subprocess_command]_vars

\* prepare_subprocess_command has returned twice in a row, the second time
\* with the list it stored the first time.
C14_Witness ==
    /\ last.op = "prepare_subprocess_command"
    /\ last.exc = "none"
    /\ last.repeat
    /\ last.ret = subprocess_command
    /\ script_path \in DOMAIN files

\* C15: write_new_script is atomic with respect to the other tasks of the
\* instance: a write_new_script that returns has consumed a preparation that
\* no other write_new_script consumed, and no prepare_current_run_directory
\* was made between its start and its return, so that it clears no pending
\* run directory but the one it wrote to.
C15_WriteIsAtomic ==
    [][\A t \in Tasks :
         WriteClose(t) =>
            /\ hist.prepared
            /\ ~frame[t].overtaken]_vars

\* The argument list for a script at path.
ArgvFor(path) ==
    <<PathStr(executable_path), "@" \o PathStr(path), "/silent">>

\* Another run_script call has stored its list, which differs from the one
\* task t built, in self.subprocess_command.
OvertakenBy(t, u) ==
    /\ u # t
    /\ pc[u] \in {"r_spawn", "r_wait"}
    /\ frame[u].command = subprocess_command
    /\ frame[u].command # frame[t].command

\* C16 as stated: run_script calls on one instance share the invocation
\* list, so that a run_script call overtaken by another one, made after
\* script_path changed, launches its child with the list the other built.
C16_OvertakenRunLaunchesOtherList ==
    [][\A t \in Tasks : \A u \in Tasks :
         (RunSpawn(t) /\ OvertakenBy(t, u)) =>
            launched' = Append(launched, frame[u].command)]_vars

\* C16, amended: every run_script call launches its child with the list it
\* built itself, for the script_path current when it was called, whatever
\* other run_script calls have stored in self.subprocess_command since; the
\* error record of a failed child carries that same list.
C16_RunLaunchesOwnList ==
    [][/\ \A t \in Tasks :
            RunSpawn(t) =>
               /\ frame[t].command = ArgvFor(frame[t].path)
               /\ launched' = Append(launched, ArgvFor(frame[t].path))
       /\ \A t \in Tasks : \A stdout \in Streams : \A stderr \in Streams :
            (RunExit(t, 1, stdout, stderr) /\ Len(log') > Len(log)) =>
               log'[Len(log')].command = ArgvFor(frame[t].path)]_vars

\* Two run_script calls are waiting for their children, launched with
\* different lists, of which self.subprocess_command holds one.
C16_Witness ==
    \E t \in Tasks : \E u \in Tasks :
       /\ pc[t] = "r_wait"
       /\ pc[u] = "r_wait"
       /\ frame[t].command # frame[u].command
       /\ subprocess_command = frame[u].command
       /\ launched = <<frame[t].command, frame[u].command>>

\* C17: when the child of a run_script call ends (the script being one that
\* write_new_script has written in full), both captured streams are
\* printed, stdout first, if the return code is 0 and print_output is true,
\* and nothing is printed otherwise.
C17_PrintsIffSuccessAndAsked ==
    [][\A t \in Tasks : \A returncode \in ReturnCodes :
         \A stdout \in Streams : \A stderr \in Streams :
            (RunExit(t, returncode, stdout, stderr)
                /\ script_path = hist.wrote) =>
               IF returncode = 0 /\ frame[t].print_output
               THEN /\ Len(console') = Len(console) + 2
                    /\ console'[Len(console) + 1] = Decode(stdout).text
                    /\ console'[Len(console) + 2] = Decode(stderr).text
               ELSE console' = console]_vars

\* The text a failing write_new_script call would have written does not
\* exist: a field of the template is missing from the keyword arguments.
FieldMissing(kwargs) == ~Format(script_data, kwargs).ok

\* C18: a write_new_script call whose keyword arguments miss a field of the
\* template raises and leaves everything as it was before the call: the
\* script_path, the files, and current_run_directory, which is still set.
C18_FailedWriteChangesNothing ==
    [][/\ \A t \in Tasks : \A kwargs \in KwargsChoices :
            (MayCall(t) /\ WriteBegin(t, kwargs)
                /\ ~RunDirectoryNotSet /\ FieldMissing(kwargs)) =>
               script_path' = script_path
       /\ \A t \in Tasks :
            (WriteOpen(t) /\ FieldMissing(frame[t].kwargs)) =>
               /\ files' = files
               /\ pc'[t] = "w_abort"
       /\ \A t \in Tasks :
            WriteAbort(t) =>
               /\ last' = Outcome("write_new_script", "KeyError", None)
               /\ current_run_directory' = current_run_directory
               /\ current_run_directory' # None]_vars

\* The script_path is the script file of a run directory that a
\* prepare_current_run_directory has made under the data directory.
ScriptPathInRunDirectory ==
    /\ Len(script_path) = Len(DATA_DIRECTORY) + 2
    /\ script_path[Len(script_path)] = "beyond_compare_script.txt"
    /\ PathParent(PathParent(script_path)) = DATA_DIRECTORY
    /\ PathParent(script_path) \in dirs
    /\ \E c \in 0..clock :
          PathParent(script_path) = DATA_DIRECTORY \o <<SecondStamp[c]>>

\* C19: script_path is None or the script file of a run directory returned
\* by an earlier prepare_current_run_directory; only write_new_script
\* changes it, and nothing sets it back to None.
C19_ScriptPathStaysInRunDirectory ==
    [][/\ (script_path' = None \/ ScriptPathInRunDirectory')
       /\ script_path' # script_path =>
             \E t \in Tasks : \E kwargs \in KwargsChoices :
                WriteBegin(t, kwargs)
       /\ script_path # None => script_path' # None]_vars

\* The script has been removed and script_path still names it.
C19_Witness ==
    /\ last = Outcome("remove_script", "none", None)
    /\ script_path # None
    /\ script_path = hist.wrote
    /\ ~Exists(script_path)
    /\ ScriptPathInRunDirectory

====
